---------------------------- MODULE Spec2Model ----------------------------
(***************************************************************************)
(* A model of analogue3d_firmware_updater.py: the volume locator, the      *)
(* firmware installer, the backup archiver / restorer and the interactive  *)
(* menu loop.                                                              *)
(*                                                                         *)
(* Python strings whose characters the code inspects (split, strip, lower, *)
(* startswith, endswith, "in") are sequences of one-character strings.     *)
(* Directory-entry names of the backed-up tree, which the code only        *)
(* compares and joins, are atomic strings.  The host is POSIX: os.sep is   *)
(* "/" and file names are case sensitive.                                  *)
(***************************************************************************)
EXTENDS Integers, Sequences, FiniteSets, TLC

VARIABLES
    partitions,   \* psutil.disk_partitions(): sequence of [mountpoint, opts, fstype]
    w_ok,         \* the mount points for which os.access(mount, os.W_OK) is true
    usage_fails,  \* the mount points for which shutil.disk_usage raises
    candidates,   \* what get_potential_sd_cards last returned ("unset" before)
    card,         \* the top level of the selected volume root: name -> entry
    cwd_files,    \* the working directory of the tool: downloaded name -> data
    inst,         \* what the last install_firmware call did
    installs,     \* how many times install_firmware has run
    vol,          \* the file trees of the volumes: volume -> (path -> node)
    backups,      \* the backups directory: timestamp of the file name -> archive
    clock,        \* datetime.now() as last read, in seconds
    budget,       \* how many more operations the operator starts
    last,         \* what the last backup or restore operation did
    pc,           \* where main is: at the menu prompt, at the "another operation"
                  \* prompt, or exited
    exit_code,    \* the exit code of the process once it has exited
    log           \* what the last pass through the menu loop did and printed

volVars == <<partitions, w_ok, usage_fails, candidates>>
instVars == <<card, cwd_files, inst, installs>>
bkVars == <<vol, backups, clock, budget, last>>
menuVars == <<pc, exit_code, log>>
vars == <<partitions, w_ok, usage_fails, candidates, card, cwd_files, inst, installs,
          vol, backups, clock, budget, last, pc, exit_code, log>>

(***************************************************************************)
(* Bounds of the model.                                                    *)
(***************************************************************************)
MaxParts == 2
MaxAnchors == 2
MaxInstalls == 2
MaxDepth == 3
MaxClock == 2
MaxOps == 2
MaxRestoreOps == 3

(***************************************************************************)
(* Python str operations on sequences of characters.                       *)
(***************************************************************************)
UpperLetters == <<"A","B","C","D","E","F","G","H","I","J","K","L","M",
                  "N","O","P","Q","R","S","T","U","V","W","X","Y","Z">>
LowerLetters == <<"a","b","c","d","e","f","g","h","i","j","k","l","m",
                  "n","o","p","q","r","s","t","u","v","w","x","y","z">>
Whitespace == {" ", "\t", "\n", "\r"}

LowerChar(c) ==
    IF \E i \in 1..26 : UpperLetters[i] = c
    THEN LowerLetters[CHOOSE i \in 1..26 : UpperLetters[i] = c]
    ELSE c

\* s.lower()
Lower(s) == [i \in 1..Len(s) |-> LowerChar(s[i])]

\* s.startswith(p)
StartsWith(s, p) == Len(p) <= Len(s) /\ SubSeq(s, 1, Len(p)) = p

\* s.endswith(p)
EndsWith(s, p) == Len(p) <= Len(s) /\ SubSeq(s, Len(s) - Len(p) + 1, Len(s)) = p

\* p in s
Contains(s, p) == \E i \in 1..(Len(s) - Len(p) + 1) : SubSeq(s, i, i + Len(p) - 1) = p

\* s.split(sep) for a one-character separator: the sequence of segments
RECURSIVE Split(_, _)
Split(s, sep) ==
    IF \A i \in 1..Len(s) : s[i] # sep
    THEN <<s>>
    ELSE LET k == CHOOSE i \in 1..Len(s) : s[i] = sep /\ \A j \in 1..(i-1) : s[j] # sep
         IN  <<SubSeq(s, 1, k - 1)>> \o Split(SubSeq(s, k + 1, Len(s)), sep)

\* s.rstrip(chars)
RECURSIVE RStrip(_, _)
RStrip(s, chars) ==
    IF Len(s) > 0 /\ s[Len(s)] \in chars THEN RStrip(SubSeq(s, 1, Len(s) - 1), chars) ELSE s

\* s.lstrip(chars)
RECURSIVE LStrip(_, _)
LStrip(s, chars) ==
    IF Len(s) > 0 /\ s[1] \in chars THEN LStrip(Tail(s), chars) ELSE s

\* s.strip()
Strip(s) == LStrip(RStrip(s, Whitespace), Whitespace)

(***************************************************************************)
(* Volume locator: get_potential_sd_cards.                                 *)
(***************************************************************************)
os_sep == <<"/">>
S_removable == <<"r","e","m","o","v","a","b","l","e">>
S_cdrom == <<"c","d","r","o","m">>
SdFstypes == { <<"f","a","t">>, <<"f","a","t","3","2">>, <<"e","x","f","a","t">>,
               <<"v","f","a","t">>, <<"n","t","f","s">> }
ExternalPrefixes == { <<"/","m","e","d","i","a","/">>,
                      <<"/","V","o","l","u","m","e","s","/">>,
                      <<"/","m","n","t","/">> }
GiB == 1073741824
\* shutil.disk_usage(mount).free of every volume of the modelled host, in bytes
FreeBytes == 1610612736

\* A stricter heuristic, for comparison: only an explicit "removable" option counts.
is_removable_strict(part) == Contains(Lower(part.opts), S_removable)

is_removable(part) ==
    Contains(Lower(part.opts), S_removable) \/ ~Contains(Lower(part.opts), S_cdrom)

is_sd_like(part) == Lower(part.fstype) \in SdFstypes

is_external_path(part) == \E p \in ExternalPrefixes : StartsWith(part.mountpoint, p)

display_path(mount) == RStrip(mount, {"/"}) \o os_sep

free_gb(mount, fails) == IF mount \in fails THEN 0 ELSE FreeBytes \div GiB

\* The loop over psutil.disk_partitions(), from partition i on, with the
\* candidates collected so far.
RECURSIVE scan_partitions(_, _, _, _, _)
scan_partitions(parts, writable, fails, i, cands) ==
    IF i > Len(parts) THEN cands
    ELSE LET part == parts[i]
             mount == part.mountpoint
             next ==
                 IF mount \notin writable THEN cands
                 ELSE IF is_removable(part) \/ is_sd_like(part) \/ is_external_path(part)
                 THEN IF \A j \in 1..Len(cands) : cands[j][1] # display_path(mount)
                      THEN Append(cands, <<display_path(mount), free_gb(mount, fails)>>)
                      ELSE cands
                 ELSE cands
         IN  scan_partitions(parts, writable, fails, i + 1, next)

get_potential_sd_cards(parts, writable, fails) ==
    scan_partitions(parts, writable, fails, 1, <<>>)

\* The inputs of the volume locator.
Mounts == { <<"/">>, <<"/","o","p","t">>, <<"/","m","n","t","/","s","d">> }
MountOpts == { <<"r","w">>, <<"R","W",",","R","e","m","o","v","a","b","l","e">>,
               <<"r","o",",","c","d","r","o","m">> }
Fstypes == { <<"e","x","t","4">>, <<"V","F","A","T">> }
Partition == [mountpoint : Mounts, opts : MountOpts, fstype : Fstypes]

RECURSIVE SeqsUpTo(_, _)
SeqsUpTo(S, n) ==
    IF n = 0 THEN { <<>> }
    ELSE LET shorter == SeqsUpTo(S, n - 1)
         IN  shorter \cup { Append(s, x) : s \in { t \in shorter : Len(t) = n - 1 }, x \in S }


(***************************************************************************)
(* Remote resource locator, file fetcher and installer.                    *)
(***************************************************************************)
FIRMWARE_PAGE == <<"h","t","t","p","s",":","/","/","w","w","w",".","a","n","a","l","o","g","u","e",".","c","o","/","s","u","p","p","o","r","t","/","3","d","/","f","i","r","m","w","a","r","e","/","l","a","t","e","s","t">>
S_scheme == <<"h","t","t","p","s",":","/","/">>
S_download == <<"D","o","w","n","l","o","a","d"," ","[">>
S_MB == <<"M","B">>
S_a3d_os == <<"a","3","d","_","o","s","_">>
S_bin == <<".","b","i","n">>

\* urllib.parse.urljoin(base, href) for an absolute href and for a href that
\* is an absolute path on the base's host.
urljoin(base, href) ==
    IF StartsWith(href, S_scheme) THEN href
    ELSE LET rest == SubSeq(base, Len(S_scheme) + 1, Len(base))
             host == Split(rest, "/")[1]
         IN  S_scheme \o host \o href

\* The first anchor whose text holds "Download [" and "MB"; <<>> when none.
RECURSIVE find_download_link(_, _)
find_download_link(anchors, i) ==
    IF i > Len(anchors) THEN <<>>
    ELSE IF /\ Len(anchors[i].text) > 0
            /\ Contains(anchors[i].text, S_download)
            /\ Contains(anchors[i].text, S_MB)
         THEN anchors[i].href
         ELSE find_download_link(anchors, i + 1)

\* The file name the locator derives from the resolved URL.
locator_filename(download_url) ==
    LET parts == Split(download_url, "/") IN parts[Len(parts)]

\* The pages the firmware URL may serve: the anchors of the page in order.
Hrefs == { <<"h","t","t","p","s",":","/","/","c","d","n",".","x","/","a","3","d","_","o","s","_","1",".","b","i","n">>,
           <<"/","f","w","/","a","3","d","_","o","s","_","2",".","b","i","n","?","v","=","2">>,
           <<"h","t","t","p","s",":","/","/","c","d","n",".","x","/","g","e","t","?","f","=","/","a","3","d","_","o","s","_","2",".","b","i","n">> }
AnchorTexts == { <<"D","o","w","n","l","o","a","d"," ","[","4"," ","M","B","]">>,
                 <<"D","o","w","n","l","o","a","d">> }
Anchor == [text : AnchorTexts, href : Hrefs]
Pages == SeqsUpTo(Anchor, MaxAnchors)

\* What get_latest_firmware_url makes of a page it received: "none" when no
\* anchor matches, else the resolved URL and the file name.
parse_firmware_page[anchors \in Pages] ==
    LET download_link == find_download_link(anchors, 1)
    IN  IF download_link = <<>>
        THEN [status |-> "none", url |-> <<>>, filename |-> <<>>]
        ELSE LET download_url == urljoin(FIRMWARE_PAGE, download_link)
             IN  [status |-> "ok", url |-> download_url,
                  filename |-> locator_filename(download_url)]

\* get_latest_firmware_url: "raised" when the request fails.
get_latest_firmware_url(page_ok, anchors) ==
    IF ~page_ok THEN [status |-> "raised", url |-> <<>>, filename |-> <<>>]
    ELSE parse_firmware_page[anchors]

\* The file name download_file saves a URL under.
download_filename(url) ==
    LET parts == Split(url, "/") IN Split(parts[Len(parts)], "?")[1]

\* An entry of the volume root.
File(data, locked) == [kind |-> "file", data |-> data, locked |-> locked, children |-> {}]
Dir(children) == [kind |-> "dir", data |-> <<>>, locked |-> FALSE, children |-> children]

\* Whether os.remove(entry) succeeds: not on a directory, not on a locked file.
remove_succeeds(entry) == entry.kind = "file" /\ ~entry.locked

\* A wrong test, for comparison: the just-installed file name is not spared.
is_stale_any(entry, fw_filename) ==
    StartsWith(entry, S_a3d_os) /\ EndsWith(entry, S_bin)

is_stale(entry, fw_filename) ==
    StartsWith(entry, S_a3d_os) /\ EndsWith(entry, S_bin) /\ entry # fw_filename

Without(f, n) == [m \in (DOMAIN f) \ {n} |-> f[m]]
With(f, n, v) == [m \in (DOMAIN f) \cup {n} |-> IF m = n THEN v ELSE f[m]]

\* The cleanup loop of install_firmware over the entries still to visit.
RECURSIVE remove_old_firmware(_, _, _, _)
remove_old_firmware(root, todo, fw_filename, removed) ==
    IF todo = {} THEN [root |-> root, removed |-> removed]
    ELSE LET entry == CHOOSE e \in todo : TRUE
         IN  IF is_stale(entry, fw_filename) /\ remove_succeeds(root[entry])
             THEN remove_old_firmware(Without(root, entry), todo \ {entry},
                                      fw_filename, removed + 1)
             ELSE remove_old_firmware(root, todo \ {entry}, fw_filename, removed)

\* shutil.copy(local, dest): into dest when dest is a directory, else onto dest;
\* "raised" when dest is a file that cannot be written or the copy itself fails.
copy_to_root(root, local_name, data, dest_name, copy_ok) ==
    IF ~copy_ok THEN [ok |-> FALSE, root |-> root]
    ELSE IF dest_name \in DOMAIN root /\ root[dest_name].kind = "dir"
    THEN [ok |-> TRUE,
          root |-> With(root, dest_name, Dir(root[dest_name].children \cup {local_name}))]
    ELSE IF dest_name \in DOMAIN root /\ root[dest_name].locked
    THEN [ok |-> FALSE, root |-> root]
    ELSE [ok |-> TRUE, root |-> With(root, dest_name, File(data, FALSE))]

NoInstall ==
    [outcome |-> "none", fw_url |-> <<>>, fw_filename |-> <<>>, local |-> <<>>,
     removed |-> 0, before |-> <<>>]

\* Everything get_latest_firmware_url can return or raise, over the pages.
LocatorResults ==
    { get_latest_firmware_url(page_ok, anchors) : page_ok \in BOOLEAN, anchors \in Pages }

\* install_firmware(target_root), given what its call of
\* get_latest_firmware_url comes to and the outcomes of its download and of
\* its copy.
install_firmware(found, download_ok, copy_ok) ==
    LET base == [NoInstall EXCEPT !.before = card]
    IN  IF found.status = "raised"
        THEN /\ inst' = [base EXCEPT !.outcome = "page_request_raised"]
             /\ UNCHANGED <<card, cwd_files>>
        ELSE IF found.status = "none"
        THEN /\ inst' = [base EXCEPT !.outcome = "returned_false"]
             /\ UNCHANGED <<card, cwd_files>>
        ELSE LET named == [base EXCEPT !.fw_url = found.url,
                                       !.fw_filename = found.filename,
                                       !.local = download_filename(found.url)]
             IN  IF ~download_ok
                 THEN /\ inst' = [named EXCEPT !.outcome = "download_raised"]
                      /\ UNCHANGED <<card, cwd_files>>
                 ELSE LET copied == copy_to_root(card, named.local, found.url,
                                                 found.filename, copy_ok)
                          cleaned == remove_old_firmware(copied.root, DOMAIN copied.root,
                                                         found.filename, 0)
                      IN  /\ cwd_files' = With(cwd_files, named.local, found.url)
                          /\ IF ~copied.ok
                             THEN /\ inst' = [named EXCEPT !.outcome = "copy_raised"]
                                  /\ UNCHANGED card
                             ELSE /\ inst' = [named EXCEPT !.outcome = "returned_true",
                                                           !.removed = cleaned.removed]
                                  /\ card' = cleaned.root

\* The inputs of the installer.
N_fw1 == <<"a","3","d","_","o","s","_","1",".","b","i","n">>
N_fw2 == <<"a","3","d","_","o","s","_","2",".","b","i","n">>
N_bak == <<"a","3","d","_","o","s","_","1",".","b","i","n",".","b","a","k">>
N_xbin == <<"x",".","b","i","n">>
N_fw0 == <<"a","3","d","_","o","s","_",".","b","i","n">>
N_Library == <<"L","i","b","r","a","r","y">>

Absent == [kind |-> "absent", data |-> <<>>, locked |-> FALSE, children |-> {}]
OldFile == File(<<"o","l","d">>, FALSE)
LockedFile == File(<<"o","l","d">>, TRUE)
RootNames == {N_fw0, N_fw1, N_fw2, N_bak, N_xbin, N_Library}
RootOptions(n) ==
    IF n = N_fw1 THEN {Absent, OldFile, Dir({})}
    ELSE IF n = N_fw2 THEN {Absent, OldFile, LockedFile}
    ELSE IF n = N_Library THEN {Absent, Dir({}), Dir({N_fw1})}
    ELSE {Absent, OldFile}
RootStates ==
    { [n \in {m \in RootNames : f[m] # Absent} |-> f[n]] :
        f \in { g \in [RootNames -> {Absent, OldFile, LockedFile, Dir({}), Dir({N_fw1})}] :
                  \A n \in RootNames : g[n] \in RootOptions(n) } }


(***************************************************************************)
(* The file tree of a volume: a function from paths (sequences of names,   *)
(* relative to the volume root) to nodes.  A path is in the tree only if   *)
(* its parent is the root or a directory of the tree.                      *)
(***************************************************************************)
DirNode == [dir |-> TRUE, data |-> ""]
FileNode(data) == [dir |-> FALSE, data |-> data]
EmptyTree == <<>>

ParentOf(p) == SubSeq(p, 1, Len(p) - 1)
IsUnder(q, p) == Len(q) > Len(p) /\ SubSeq(q, 1, Len(p)) = p

exists(fs, p) == p = <<>> \/ p \in DOMAIN fs
isdir(fs, p) == p = <<>> \/ (p \in DOMAIN fs /\ fs[p].dir)

\* The names of the model in the order os.listdir yields them.
NameOrder == <<"Library", "SETTINGS", "Saves", "a", "b">>
LowerName == [n \in {"Library", "SETTINGS", "Saves", "a", "b"} |->
                 CASE n = "Library" -> "library"
                   [] n = "SETTINGS" -> "settings"
                   [] n = "Saves" -> "saves"
                   [] OTHER -> n]

\* os.listdir(p): the names of the entries of directory p
listdir(fs, p) == SelectSeq(NameOrder, LAMBDA n : Append(p, n) \in DOMAIN fs)

(***************************************************************************)
(* Archiver: create_backup.  An archive entry has a name (the components   *)
(* of its "/"-joined path and whether a "/" ends it) and a payload.        *)
(***************************************************************************)
\* A wrong marker, for comparison: the directory's path without the trailing "/".
marker_without_slash(path) == [name |-> path, slash |-> FALSE, data |-> ""]

\* zipf.writestr(rel + '/', b'')
directory_marker(path) == [name |-> path, slash |-> TRUE, data |-> ""]

\* zipf.write(full_path, arcname)
file_entry(fs, path) == [name |-> path, slash |-> FALSE, data |-> fs[path].data]

\* A wrong test, for comparison: no subdirectory is taken for empty.
never_empty(fs, subdir_path) == FALSE

\* not os.listdir(subdir_path)
truly_empty(fs, subdir_path) == listdir(fs, subdir_path) = <<>>

RECURSIVE Flatten(_)
Flatten(seqs) == IF seqs = <<>> THEN <<>> ELSE Head(seqs) \o Flatten(Tail(seqs))

\* The entries written during os.walk(root): for root, the markers of its
\* empty subdirectories and then its files; then the same for each
\* subdirectory in turn.
RECURSIVE walk_entries(_, _)
walk_entries(fs, root) ==
    LET names == listdir(fs, root)
        dirs == SelectSeq(names, LAMBDA n : fs[Append(root, n)].dir)
        files == SelectSeq(names, LAMBDA n : ~fs[Append(root, n)].dir)
        empty == SelectSeq(dirs, LAMBDA d : truly_empty(fs, Append(root, d)))
    IN  [i \in 1..Len(empty) |-> directory_marker(Append(root, empty[i]))]
        \o [i \in 1..Len(files) |-> file_entry(fs, Append(root, files[i]))]
        \o Flatten([i \in 1..Len(dirs) |-> walk_entries(fs, Append(root, dirs[i]))])

folders_to_backup(fs) ==
    SelectSeq(listdir(fs, <<>>),
              LAMBDA entry : isdir(fs, <<entry>>) /\ LowerName[entry] \in {"library", "settings"})

\* The entries of the archive create_backup writes for a volume.
backup_entries(fs) ==
    LET folders == folders_to_backup(fs)
    IN  Flatten([i \in 1..Len(folders) |->
                    <<directory_marker(<<folders[i]>>)>> \o walk_entries(fs, <<folders[i]>>)])

(***************************************************************************)
(* Restorer: restore_backup.                                               *)
(***************************************************************************)
Digits == <<"0","1","2","3","4","5","6","7","8","9">>
IsDigit(c) == \E i \in 1..10 : Digits[i] = c
DigitValue(c) == (CHOOSE i \in 1..10 : Digits[i] = c) - 1

RECURSIVE DecimalValue(_)
DecimalValue(s) ==
    IF s = <<>> THEN 0
    ELSE 10 * DecimalValue(SubSeq(s, 1, Len(s) - 1)) + DigitValue(s[Len(s)])

\* int(s): an optional sign and decimal digits; anything else raises.
IsInt(s) ==
    LET body == IF Len(s) > 0 /\ s[1] \in {"+", "-"} THEN Tail(s) ELSE s
    IN  Len(body) > 0 /\ \A i \in 1..Len(body) : IsDigit(body[i])
IntOf(s) ==
    IF s[1] = "-" THEN 0 - DecimalValue(Tail(s))
    ELSE IF s[1] = "+" THEN DecimalValue(Tail(s))
    ELSE DecimalValue(s)

\* Whether list[index] raises for a Python list of n elements, and the
\* 1-based position it reads when it does not.
IndexInRange(n, index) == 0 - n <= index /\ index < n
PositionOf(n, index) == IF index >= 0 THEN index + 1 ELSE n + index + 1

\* sorted(..., reverse=True) of the backup file names: newest first
RECURSIVE sorted_descending(_)
sorted_descending(stamps) ==
    IF stamps = {} THEN <<>>
    ELSE LET newest == CHOOSE t \in stamps : \A u \in stamps : u <= t
         IN  <<newest>> \o sorted_descending(stamps \ {newest})

S_YES == <<"Y","E","S">>

\* A looser gate, for comparison: the token in any letter case.
is_confirmed_any_case(confirm) == Lower(Strip(confirm)) = Lower(S_YES)

\* confirm = input(...).strip(); not (confirm != "YES")
is_confirmed(confirm) == Strip(confirm) = S_YES

\* The ancestors of a path that os.makedirs has to create, outermost first.
missing_ancestors(fs, p) ==
    SelectSeq([i \in 1..Len(p) |-> SubSeq(p, 1, i)], LAMBDA q : ~exists(fs, q))

\* A destructive extraction, for comparison: a directory member replaces what is at its path.
extract_member_replacing(fs, member) ==
    LET target == member.name
        kept == { q \in DOMAIN fs : ~(member.slash /\ IsUnder(q, target)) }
        above == { SubSeq(target, 1, i) : i \in 1..(Len(target) - 1) }
        made == [q \in above \ kept |-> DirNode] @@ [q \in kept |-> fs[q]]
    IN  [raised |-> FALSE,
         fs |-> (target :> IF member.slash THEN DirNode ELSE FileNode(member.data)) @@ made]

\* ZipFile.extract of one member: the tree afterwards, and whether it raised.
extract_member(fs, member) ==
    LET target == member.name
        upperdirs == ParentOf(target)
        to_make == IF exists(fs, upperdirs) THEN <<>> ELSE missing_ancestors(fs, upperdirs)
        \* os.makedirs raises when the ancestor it starts from is a file
        makedirs_ok == to_make = <<>> \/ isdir(fs, ParentOf(to_make[1]))
        made == [q \in {to_make[i] : i \in 1..Len(to_make)} |-> DirNode] @@ fs
    IN  IF ~makedirs_ok THEN [raised |-> TRUE, fs |-> fs]
        ELSE IF ~isdir(made, upperdirs) THEN [raised |-> TRUE, fs |-> made]
        ELSE IF member.slash
        THEN IF isdir(made, target) THEN [raised |-> FALSE, fs |-> made]
             ELSE IF exists(made, target) THEN [raised |-> TRUE, fs |-> made]
             ELSE [raised |-> FALSE, fs |-> (target :> DirNode) @@ made]
        ELSE IF isdir(made, target) THEN [raised |-> TRUE, fs |-> made]
             ELSE [raised |-> FALSE, fs |-> (target :> FileNode(member.data)) @@ made]

\* zipf.extractall(target_root): member after member, until one raises
RECURSIVE extractall(_, _)
extractall(fs, entries) ==
    IF entries = <<>> THEN [raised |-> FALSE, fs |-> fs]
    ELSE LET one == extract_member(fs, Head(entries))
         IN  IF one.raised THEN one ELSE extractall(one.fs, Tail(entries))

NoOperation ==
    [op |-> "none", v |-> "none", before |-> EmptyTree, choice |-> <<>>, confirm |-> <<>>,
     listed |-> <<>>, selected |-> 0,
     archive |-> [entries |-> <<>>, of |-> EmptyTree], outcome |-> "none"]

\* create_backup(target_root), with the second datetime.now() reads: an archive
\* written in the same second as another replaces it.
create_backup(v, timestamp) ==
    /\ clock' = timestamp
    /\ backups' = (timestamp :> [entries |-> backup_entries(vol[v]), of |-> vol[v]]) @@ backups
    /\ last' = [NoOperation EXCEPT !.op = "backup", !.v = v, !.before = vol[v],
                                   !.selected = timestamp, !.outcome = "created"]
    /\ UNCHANGED vol

\* restore_backup(target_root) with the two lines the operator types
restore_backup(v, choice, confirm) ==
    LET base == [NoOperation EXCEPT !.op = "restore", !.v = v, !.before = vol[v]]
        listing == sorted_descending(DOMAIN backups)
        typed == Strip(choice)
    IN  /\ UNCHANGED <<backups, clock>>
        /\ IF DOMAIN backups = {}
           THEN /\ last' = [base EXCEPT !.outcome = "no_backups"]
                /\ UNCHANGED vol
           ELSE IF ~IsInt(typed) \/ ~IndexInRange(Len(listing), IntOf(typed) - 1)
           THEN /\ last' = [base EXCEPT !.choice = choice, !.listed = listing,
                                        !.outcome = "invalid_selection"]
                /\ UNCHANGED vol
           ELSE LET selected_backup == listing[PositionOf(Len(listing), IntOf(typed) - 1)]
                    chosen == [base EXCEPT !.choice = choice, !.listed = listing,
                                           !.confirm = confirm,
                                           !.selected = selected_backup,
                                           !.archive = backups[selected_backup]]
                IN  IF ~is_confirmed(confirm)
                    THEN /\ last' = [chosen EXCEPT !.outcome = "cancelled"]
                         /\ UNCHANGED vol
                    ELSE LET done == extractall(vol[v], backups[selected_backup].entries)
                         IN  /\ vol' = [vol EXCEPT ![v] = done.fs]
                             /\ last' = [chosen EXCEPT !.outcome =
                                            IF done.raised THEN "extract_raised"
                                            ELSE "completed"]

(***************************************************************************)
(* Interactive orchestrator: select_sd_card and main.  The tasks main      *)
(* calls are taken by their outcomes: what they return, or that they       *)
(* raised.                                                                 *)
(***************************************************************************)
\* os.path.exists and os.access(..., os.W_OK) of a path the operator names:
\* the mounted volumes are the paths of the modelled host.
path_exists(parts, path) ==
    \E i \in 1..Len(parts) : display_path(parts[i].mountpoint) = display_path(path)
path_writable(writable, path) ==
    \E m \in writable : display_path(m) = display_path(path)

\* select_sd_card: the target root, or that it called sys.exit(1).
select_sd_card(parts, writable, fails, number, manual) ==
    LET drives == get_potential_sd_cards(parts, writable, fails)
        typed == Strip(number)
        picked ==
            IF drives # <<>>
            THEN IF typed = <<"0">> THEN [ok |-> TRUE, root |-> Strip(manual)]
                 ELSE IF IsInt(typed) /\ IndexInRange(Len(drives), IntOf(typed) - 1)
                 THEN [ok |-> TRUE,
                       root |-> drives[PositionOf(Len(drives), IntOf(typed) - 1)][1]]
                 ELSE [ok |-> FALSE, root |-> <<>>]
            ELSE [ok |-> TRUE, root |-> Strip(manual)]
    IN  IF ~picked.ok THEN [exited |-> TRUE, root |-> <<>>]
        ELSE IF ~path_exists(parts, picked.root) THEN [exited |-> TRUE, root |-> <<>>]
        ELSE IF ~path_writable(writable, picked.root) THEN [exited |-> TRUE, root |-> <<>>]
        ELSE [exited |-> FALSE, root |-> picked.root]

\* What the tasks can do: the outcomes of install_firmware and restore_backup
\* are those of the models above; install_labels raises from download_file or
\* from its copy, or finishes; create_backup finishes.
FirmwareOutcomes ==
    {"page_request_raised", "returned_false", "download_raised", "copy_raised", "returned_true"}
LabelsOutcomes == {"download_raised", "copy_raised", "returned"}
BackupOutcomes == {"created"}
RestoreOutcomes == {"no_backups", "invalid_selection", "cancelled", "extract_raised", "completed"}
Raised(outcome) ==
    outcome \in {"page_request_raised", "download_raised", "copy_raised", "extract_raised"}

MenuChoices == { <<"0">>, <<"1">>, <<"2">>, <<"3">>, <<"4">>, <<"5">> }

\* choice in ["0","1","2","3","4","5"]
is_menu_choice(choice) == choice \in MenuChoices

\* A stricter test, for comparison: only a lower-case y continues.
another_operation_strict(again) == Strip(again) = <<"y">>

\* again = input(...).strip().lower(); not (again != "y")
another_operation(again) == Lower(Strip(again)) = <<"y">>

NoPass ==
    [choice |-> <<>>, target |-> <<>>, firmware |-> "not_run", labels |-> "not_run",
     backup |-> "not_run", restore |-> "not_run", printed |-> {}, again |-> <<>>,
     ended |-> "no"]

\* The tasks main runs for a choice, each with what it may do: "not_run" for
\* a task the choice does not call or an earlier exception keeps from running.
firmware_runs(choice) ==
    IF choice \in { <<"1">>, <<"3">> } THEN FirmwareOutcomes ELSE {"not_run"}
labels_runs(choice, fw) ==
    IF choice \in { <<"1">>, <<"2">> } /\ ~Raised(fw) THEN LabelsOutcomes ELSE {"not_run"}
backup_runs(choice) == IF choice = <<"4">> THEN BackupOutcomes ELSE {"not_run"}
restore_runs(choice) == IF choice = <<"5">> THEN RestoreOutcomes ELSE {"not_run"}

\* One pass of the loop of main from the menu prompt: to the menu prompt
\* again, to the "another operation" prompt, or out of the program.
main_menu(line, number, manual, fw, labels, bk, rs) ==
    LET choice == Strip(line)
        pass == [NoPass EXCEPT !.choice = line]
        sel == select_sd_card(partitions, w_ok, usage_fails, number, manual)
        ran == [pass EXCEPT !.target = sel.root,
                            !.firmware = fw, !.labels = labels,
                            !.backup = bk, !.restore = rs,
                            !.printed =
                                IF fw = "returned_false"
                                THEN {"Error: Could not find download link"} ELSE {}]
        escaped == Raised(fw) \/ Raised(labels) \/ Raised(rs)
    IN  IF ~is_menu_choice(choice)
        THEN /\ log' = [pass EXCEPT !.printed = {"Invalid choice, try again."}]
             /\ pc' = "menu"
             /\ UNCHANGED exit_code
        ELSE IF choice = <<"0">>
        THEN /\ log' = [pass EXCEPT !.printed = {"Goodbye!"}, !.ended = "quit"]
             /\ pc' = "exited"
             /\ exit_code' = 0
        ELSE IF sel.exited
        THEN /\ log' = [pass EXCEPT !.ended = "select_sd_card_exit"]
             /\ pc' = "exited"
             /\ exit_code' = 1
        ELSE IF escaped
        THEN /\ log' = [ran EXCEPT !.ended = "unhandled_exception"]
             /\ pc' = "exited"
             /\ exit_code' = 1
        ELSE /\ log' = [ran EXCEPT !.printed =
                            @ \cup {"Safely eject your SD card when ready."}
                              \cup (IF choice \in { <<"1">>, <<"2">>, <<"3">> }
                                    THEN {"Update tasks completed!"} ELSE {})
                              \cup (IF rs = "completed"
                                    THEN {"Restore completed successfully!"} ELSE {})
                              \cup (IF bk = "created"
                                    THEN {"Backup created successfully!"} ELSE {})]
             /\ pc' = "again"
             /\ UNCHANGED exit_code

\* The end of a pass: "Do another operation? (y/n)".
main_again(again) ==
    IF another_operation(again)
    THEN /\ pc' = "menu"
         /\ log' = [log EXCEPT !.again = again]
         /\ UNCHANGED exit_code
    ELSE /\ pc' = "exited"
         /\ log' = [log EXCEPT !.again = again, !.ended = "declined",
                               !.printed = @ \cup {"All done!"}]
         /\ exit_code' = 0

\* The lines the operator may type and the hosts main may run on.
MenuLines == MenuChoices \cup { <<"6">>, <<" ","4">>, <<>> }
NumberLines == { <<"1">>, <<"0">>, <<"2">>, <<"x">> }
ManualPaths == { <<"/","m","n","t","/","s","d">>, <<"/","n","o","n","e">> }
AgainLines == { <<"y">>, <<"Y"," ">>, <<"n">>, <<>> }

IdleMenu == pc = "exited" /\ exit_code = 0 /\ log = NoPass

MainMenu ==
    \E line \in MenuLines, number \in NumberLines, manual \in ManualPaths :
        \E fw \in firmware_runs(Strip(line)) :
            \E labels \in labels_runs(Strip(line), fw),
               bk \in backup_runs(Strip(line)), rs \in restore_runs(Strip(line)) :
                /\ pc = "menu"
                /\ main_menu(line, number, manual, fw, labels, bk, rs)
                /\ UNCHANGED <<volVars, instVars, bkVars>>

MainAgain ==
    \E again \in AgainLines :
        /\ pc = "again"
        /\ main_again(again)
        /\ UNCHANGED <<volVars, instVars, bkVars>>


(***************************************************************************)
(* The trees and the operator's lines the backup model starts from.        *)
(***************************************************************************)
FileData == {"", "x"}
SubNames(len) == IF len = 2 THEN {"a", "b"} ELSE {"a"}

\* Every tree at path p (absent, a file, or a directory with every choice of
\* children) whose paths are at most maxlen long.
RECURSIVE Subtrees(_, _)
RECURSIVE Forest(_, _, _)
Subtrees(p, maxlen) ==
    {EmptyTree} \cup { p :> FileNode(d) : d \in FileData }
    \cup IF Len(p) >= maxlen THEN { p :> DirNode }
         ELSE { (p :> DirNode) @@ kids : kids \in Forest(p, SubNames(Len(p) + 1), maxlen) }
Forest(p, names, maxlen) ==
    IF names = {} THEN {EmptyTree}
    ELSE LET n == CHOOSE m \in names : TRUE
         IN  { a @@ b : a \in Subtrees(Append(p, n), maxlen),
                        b \in Forest(p, names \ {n}, maxlen) }

Volumes == {"sd", "spare"}
SavesTrees == { EmptyTree, <<"Saves">> :> FileNode("x") }
\* The trees of a set whose files all hold data.
WithData(trees) == { t \in trees : \A q \in DOMAIN t : t[q].dir \/ t[q].data = "x" }

C_1 == <<"1">>
C_2 == <<"2">>
PlainChoices == { C_1, C_2 }
PlainConfirms == { S_YES }
AllChoices == { C_1, <<" ","2">>, <<"3">>, <<"0">>, <<"-","1">>, <<"x">>, <<>> }
AllConfirms == { S_YES, <<"Y","E","S"," ">>, <<"y","e","s">>, <<"Y","E","S","!">>, <<>> }

IdleVolumes == partitions = <<>> /\ w_ok = {} /\ usage_fails = {} /\ candidates = "unset"
IdleInstaller == card = <<>> /\ cwd_files = <<>> /\ inst = NoInstall /\ installs = 0
IdleBackups ==
    /\ vol = [v \in Volumes |-> EmptyTree]
    /\ backups = <<>> /\ clock = 1 /\ budget = 0 /\ last = NoOperation

\* The clock never runs backwards: it reads the second of the last backup or a
\* later one.
CreateBackup ==
    \E v \in Volumes, timestamp \in clock..MaxClock :
        /\ budget > 0
        /\ budget' = budget - 1
        /\ create_backup(v, timestamp)
        /\ UNCHANGED <<volVars, instVars, menuVars>>

RestoreBackup(choices, confirms) ==
    \E v \in Volumes, choice \in choices, confirm \in confirms :
        /\ budget > 0
        /\ budget' = budget - 1
        /\ restore_backup(v, choice, confirm)
        /\ UNCHANGED <<volVars, instVars, menuVars>>

(***************************************************************************)
(* Backup and restore over every tree of the bounds.                       *)
(***************************************************************************)
InitBackup ==
    /\ vol \in { [v \in Volumes |-> IF v = "sd" THEN l @@ g ELSE t @@ k] :
                   l \in Subtrees(<<"Library">>, MaxDepth),
                   g \in WithData(Subtrees(<<"SETTINGS">>, 1)),
                   t \in WithData(Subtrees(<<"Library">>, 2)),
                   k \in SavesTrees }
    /\ backups = <<>>
    /\ clock = 1
    /\ budget = MaxOps
    /\ last = NoOperation
    /\ IdleVolumes /\ IdleInstaller /\ IdleMenu

NextBackup == CreateBackup \/ RestoreBackup(PlainChoices, PlainConfirms)

SpecBackup == InitBackup /\ [][NextBackup]_vars

(***************************************************************************)
(* Restore over every line the operator may type.                          *)
(***************************************************************************)
InitRestore ==
    /\ vol \in { [v \in Volumes |-> IF v = "sd" THEN l ELSE k] :
                   l \in Subtrees(<<"Library">>, 2), k \in SavesTrees }
    /\ backups = <<>>
    /\ clock = 1
    /\ budget = MaxRestoreOps
    /\ last = NoOperation
    /\ IdleVolumes /\ IdleInstaller /\ IdleMenu

NextRestore == CreateBackup \/ RestoreBackup(AllChoices, AllConfirms)

SpecRestore == InitRestore /\ [][NextRestore]_vars

(***************************************************************************)
(* The menu loop.                                                          *)
(***************************************************************************)
InitMenu ==
    /\ partitions \in SeqsUpTo({ part \in Partition :
                                   part.mountpoint = <<"/","m","n","t","/","s","d">> }, 1)
    /\ w_ok \in SUBSET { <<"/","m","n","t","/","s","d">> }
    /\ usage_fails = {}
    /\ candidates = "unset"
    /\ pc = "menu"
    /\ exit_code = 0
    /\ log = NoPass
    /\ IdleInstaller /\ IdleBackups

NextMenu == MainMenu \/ MainAgain

SpecMenu == InitMenu /\ [][NextMenu]_vars

(***************************************************************************)
(* The installer alone.                                                    *)
(***************************************************************************)
InitInstall ==
    /\ card \in RootStates
    /\ cwd_files = <<>>
    /\ inst = NoInstall
    /\ installs = 0
    /\ IdleVolumes /\ IdleBackups /\ IdleMenu

InstallFirmware ==
    \E found \in LocatorResults, download_ok, copy_ok \in BOOLEAN :
        /\ installs < MaxInstalls
        /\ installs' = installs + 1
        /\ install_firmware(found, download_ok, copy_ok)
        /\ UNCHANGED <<volVars, bkVars, menuVars>>

NextInstall == InstallFirmware

SpecInstall == InitInstall /\ [][NextInstall]_vars

(***************************************************************************)
(* The volume locator alone.                                               *)
(***************************************************************************)
InitVolumes ==
    /\ partitions \in SeqsUpTo(Partition, MaxParts)
    /\ w_ok \in SUBSET Mounts
    /\ usage_fails \in SUBSET Mounts
    /\ candidates = "unset"
    /\ IdleInstaller /\ IdleBackups /\ IdleMenu

ListCandidates ==
    /\ candidates = "unset"
    /\ candidates' = get_potential_sd_cards(partitions, w_ok, usage_fails)
    /\ UNCHANGED <<partitions, w_ok, usage_fails>>
    /\ UNCHANGED <<instVars, bkVars, menuVars>>

NextVolumes == ListCandidates

SpecVolumes == InitVolumes /\ [][NextVolumes]_vars

(***************************************************************************)
(* Claims about the volume locator.                                        *)
(***************************************************************************)
PartitionSet == { partitions[i] : i \in 1..Len(partitions) }
ListedPaths == { candidates[j][1] : j \in 1..Len(candidates) }

\* The three indicators as the claim words them: the mount options name
\* removable media, the filesystem type is allowed, the path has a prefix.
HasIndicator(part) ==
    \/ Contains(Lower(part.opts), <<"r","e","m","o","v","a","b","l","e">>)
    \/ Lower(part.fstype) \in SdFstypes
    \/ \E p \in ExternalPrefixes : StartsWith(part.mountpoint, p)

\* The rule the code applies: options that do not name optical media count
\* as removable too.
QualifiesLoosely(part) ==
    /\ part.mountpoint \in w_ok
    /\ \/ HasIndicator(part)
       \/ ~Contains(Lower(part.opts), <<"c","d","r","o","m">>)

\* C5 as stated: a volume is listed if and only if it is writable and has one
\* of the three indicators, and no mount path is listed twice.
C5_AsStated ==
    candidates # "unset" =>
        /\ \A part \in PartitionSet :
               display_path(part.mountpoint) \in ListedPaths
                   <=> \E q \in PartitionSet :
                           /\ display_path(q.mountpoint) = display_path(part.mountpoint)
                           /\ q.mountpoint \in w_ok
                           /\ HasIndicator(q)
        /\ \A i, j \in 1..Len(candidates) : candidates[i][1] = candidates[j][1] => i = j

\* C5 amended: a volume is listed if and only if it is writable and (its mount
\* options contain "removable" or do not contain "cdrom", or its filesystem
\* type is allowed, or its path has an allowed prefix); no path is listed twice
\* and nothing but the display paths of mounted volumes is listed.
C5_Filtering ==
    candidates # "unset" =>
        /\ \A part \in PartitionSet :
               display_path(part.mountpoint) \in ListedPaths
                   <=> \E q \in PartitionSet :
                           /\ display_path(q.mountpoint) = display_path(part.mountpoint)
                           /\ QualifiesLoosely(q)
        /\ ListedPaths \subseteq { display_path(part.mountpoint) : part \in PartitionSet }
        /\ \A i, j \in 1..Len(candidates) : candidates[i][1] = candidates[j][1] => i = j

\* A writable volume with none of the three indicators is listed while a
\* writable optical volume is not, and a second record of a listed mount path
\* was suppressed.
C5_Witness ==
    /\ candidates # "unset"
    /\ Len(partitions) = 2
    /\ \E part \in PartitionSet :
           /\ part.mountpoint \in w_ok /\ ~HasIndicator(part)
           /\ display_path(part.mountpoint) \in ListedPaths
    /\ \E part \in PartitionSet :
           /\ part.mountpoint \in w_ok
           /\ display_path(part.mountpoint) \notin ListedPaths

C5_WitnessDuplicate ==
    /\ candidates # "unset"
    /\ Len(partitions) = 2 /\ Len(candidates) = 1
    /\ partitions[1].mountpoint = partitions[2].mountpoint
    /\ partitions[1] # partitions[2]
    /\ \A part \in PartitionSet : QualifiesLoosely(part)


(***************************************************************************)
(* Claims about the installer.                                             *)
(***************************************************************************)
\* The glob a3d_os_*.bin.
MatchesFirmwareGlob(n) ==
    \E mid \in 0..Len(n) :
        /\ Len(n) = 7 + mid + 4
        /\ SubSeq(n, 1, 7) = <<"a","3","d","_","o","s","_">>
        /\ SubSeq(n, 8 + mid, Len(n)) = <<".","b","i","n">>

\* C4: after install_firmware has copied the firmware file F to the volume
\* root, every other top-level entry matching a3d_os_*.bin is gone if its
\* deletion succeeds and is unchanged if it fails, F is there, every other
\* entry (with what lies beneath it) is unchanged, and the removed count is
\* the number of entries deleted.
C4_StaleCleanup ==
    inst.outcome = "returned_true" =>
        LET F == inst.fw_filename
            B == inst.before
        IN  /\ F \in DOMAIN card
            /\ IF F \in DOMAIN B /\ B[F].kind = "dir"
               THEN card[F].kind = "dir" /\ B[F].children \subseteq card[F].children
               ELSE card[F].kind = "file" /\ card[F].data = inst.fw_url
            /\ DOMAIN card \subseteq (DOMAIN B) \cup {F}
            /\ \A n \in (DOMAIN B) \ {F} :
                   IF MatchesFirmwareGlob(n) /\ B[n].kind = "file" /\ ~B[n].locked
                   THEN n \notin DOMAIN card
                   ELSE n \in DOMAIN card /\ card[n] = B[n]
            /\ inst.removed = Cardinality((DOMAIN B) \ (DOMAIN card))

\* An install that deleted a stale file, kept a stale file whose deletion
\* failed, and left a firmware-named file in a subdirectory alone.
C4_Witness ==
    /\ inst.outcome = "returned_true"
    /\ inst.removed >= 1
    /\ \E n \in DOMAIN card :
           n # inst.fw_filename /\ MatchesFirmwareGlob(n) /\ card[n].locked
    /\ N_Library \in DOMAIN card /\ N_fw1 \in card[N_Library].children
    /\ N_bak \in DOMAIN card /\ N_xbin \in DOMAIN card

\* The example of the specification: two stale files removed, one left.
C4_WitnessTwoRemoved ==
    /\ inst.outcome = "returned_true"
    /\ inst.removed = 2
    /\ { n \in DOMAIN card : MatchesFirmwareGlob(n) } = {inst.fw_filename}

\* The final "/"-segment of a URL with its "?"-suffixed query string removed.
FinalSegmentWithoutQuery(url) ==
    LET slashes == { i \in 1..Len(url) : url[i] = "/" }
        from == IF slashes = {} THEN 1
                ELSE 1 + CHOOSE i \in slashes : \A j \in slashes : j <= i
        seg == SubSeq(url, from, Len(url))
        marks == { i \in 1..Len(seg) : seg[i] = "?" }
        upto == IF marks = {} THEN Len(seg)
                ELSE (CHOOSE i \in marks : \A j \in marks : i <= j) - 1
    IN  SubSeq(seg, 1, upto)

\* C9: the file name the locator derives and the file name the fetcher derives
\* from a URL are both its final "/"-segment without the query string, so the
\* firmware is placed on the volume under the name it was saved as.
C9_SameFilename ==
    inst.outcome = "returned_true" =>
        /\ inst.local = FinalSegmentWithoutQuery(inst.fw_url)
        /\ inst.fw_filename = FinalSegmentWithoutQuery(inst.fw_url)
        /\ inst.fw_filename = inst.local
        /\ inst.local \in DOMAIN card


(***************************************************************************)
(* Claims about backup and restore.                                        *)
(***************************************************************************)
\* The part of a tree create_backup is to archive: everything at and under
\* the top-level directories named library or settings in any letter case.
InScope(fs) ==
    LET tops == { n \in {"Library", "SETTINGS", "Saves"} :
                    /\ <<n>> \in DOMAIN fs /\ fs[<<n>>].dir
                    /\ LowerName[n] \in {"library", "settings"} }
    IN  [p \in { q \in DOMAIN fs : q[1] \in tops } |-> fs[p]]

Extracted == last.op = "restore" /\ last.outcome \in {"completed", "extract_raised"}
EntrySet(entries) == { entries[i] : i \in 1..Len(entries) }
EntryPaths(entries) == { entries[i].name : i \in 1..Len(entries) }
ProperPrefixes(paths) == UNION { { SubSeq(p, 1, i) : i \in 1..(Len(p) - 1) } : p \in paths }
ChildrenOf(fs, p) == { q \in DOMAIN fs : Len(q) = Len(p) + 1 /\ SubSeq(q, 1, Len(p)) = p }

\* C1: restoring, after confirmation, an archive made by create_backup into
\* an empty volume completes and yields exactly the archived Library/Settings
\* tree: the same paths, each a directory or a file as before, with the same
\* file contents.
C1_RoundTrip ==
    (Extracted /\ last.before = EmptyTree) =>
        /\ last.outcome = "completed"
        /\ vol[last.v] = InScope(last.archive.of)

\* A completed restore into an empty volume of a tree that holds an empty
\* directory inside an otherwise empty directory, a zero-byte file, a file
\* with data and an upper-case settings folder.
C1_Witness ==
    /\ Extracted /\ last.before = EmptyTree /\ last.outcome = "completed"
    /\ LET t == vol[last.v]
       IN  /\ DOMAIN t = { <<"Library">>, <<"Library", "a">>, <<"Library", "a", "a">>,
                           <<"Library", "b">>, <<"SETTINGS">> }
           /\ t[<<"Library", "a", "a">>] = DirNode
           /\ t[<<"Library", "b">>] = FileNode("")
           /\ t[<<"SETTINGS">>] = DirNode

\* A completed restore into an empty volume of a tree with a file with data
\* at the deepest level.
C1_WitnessData ==
    /\ Extracted /\ last.before = EmptyTree
    /\ <<"Library", "b", "a">> \in DOMAIN vol[last.v]
    /\ vol[last.v][<<"Library", "b", "a">>] = FileNode("x")

\* C2 as stated: whenever the confirmation line is not exactly YES, the
\* target volume is as it was.
C2_AsStated ==
    (last.op = "restore" /\ last.confirm # <<"Y","E","S">>) => vol[last.v] = last.before

\* C2 amended: the archive is extracted only when the confirmation line with
\* its leading and trailing whitespace removed is exactly YES; for any other
\* line the restore is cancelled and the target volume is as it was.
C2_ConfirmationGate ==
    last.op = "restore" =>
        /\ Extracted => Strip(last.confirm) = <<"Y","E","S">>
        /\ Strip(last.confirm) # <<"Y","E","S">> => vol[last.v] = last.before
        /\ last.outcome = "cancelled" <=>
               (last.selected # 0 /\ Strip(last.confirm) # <<"Y","E","S">>)

\* A restore of an archive with entries cancelled on the token in lower case.
C2_Witness ==
    /\ last.op = "restore" /\ last.outcome = "cancelled"
    /\ last.confirm = <<"y","e","s">>
    /\ Len(last.archive.entries) > 0
    /\ extractall(vol[last.v], last.archive.entries).fs # vol[last.v]

\* C3 as stated: what was on the volume and is no entry of the archive is
\* still there unchanged, nothing is deleted, and only paths that are entries
\* of the archive are created or overwritten.
C3_AsStated ==
    last.op = "restore" =>
        LET B == last.before
            A == vol[last.v]
            E == EntryPaths(last.archive.entries)
        IN  /\ \A p \in DOMAIN B : p \in DOMAIN A /\ (p \notin E => A[p] = B[p])
            /\ \A p \in DOMAIN A : (p \notin DOMAIN B \/ A[p] # B[p]) => p \in E

\* C3 amended: what was on the volume and is no entry of the archive is still
\* there unchanged, nothing is deleted (a directory stays the directory it
\* was), and only paths that are entries of the archive, or directories above
\* an entry, are created or overwritten.
C3_Additive ==
    last.op = "restore" =>
        LET B == last.before
            A == vol[last.v]
            E == EntryPaths(last.archive.entries)
        IN  /\ \A p \in DOMAIN B :
                   /\ p \in DOMAIN A
                   /\ p \notin E => A[p] = B[p]
                   /\ B[p].dir => A[p] = B[p]
            /\ \A p \in DOMAIN A :
                   (p \notin DOMAIN B \/ A[p] # B[p]) =>
                       \/ p \in E
                       \/ p \in ProperPrefixes(E) /\ p \notin DOMAIN B /\ A[p].dir

\* A completed restore onto a volume where it overwrote a file, created a
\* path, and left alone a file beside the archive's entries and a file
\* outside Library/Settings.
C3_Witness ==
    /\ last.op = "restore" /\ last.outcome = "completed"
    /\ LET B == last.before
           A == vol[last.v]
           E == EntryPaths(last.archive.entries)
       IN  /\ <<"Saves">> \in DOMAIN B
           /\ \E p \in DOMAIN B : A[p] # B[p]
           /\ \E p \in DOMAIN A : p \notin DOMAIN B
           /\ \E p \in DOMAIN B : p[1] = "Library" /\ p \notin E /\ ~B[p].dir

\* A restore that raised part-way on a volume holding a file where the
\* archive holds a directory.
C3_WitnessRaised ==
    /\ last.op = "restore" /\ last.outcome = "extract_raised"
    /\ vol[last.v] # last.before

\* C7 as stated: in every archive each backed-up top-level folder has a
\* marker, and so has every directory beneath it that holds no file and no
\* non-empty subdirectory.
C7_AsStated ==
    \A t \in DOMAIN backups :
        LET src == InScope(backups[t].of)
            ents == EntrySet(backups[t].entries)
        IN  \A p \in DOMAIN src :
                (/\ src[p].dir
                 /\ \/ Len(p) = 1
                    \/ \A q \in ChildrenOf(src, p) : src[q].dir /\ ChildrenOf(src, q) = {})
                    => [name |-> p, slash |-> TRUE, data |-> ""] \in ents

\* C7 amended: in every archive each backed-up top-level folder has a marker,
\* and a directory beneath it has a marker of its own exactly when it has no
\* entries at all; every marker is a zero-length entry whose path, relative to
\* the volume root, ends in "/".  (A directory whose only children are empty
\* directories has no marker of its own: its children have.)
C7_Markers ==
    \A t \in DOMAIN backups :
        LET src == InScope(backups[t].of)
            ents == EntrySet(backups[t].entries)
        IN  /\ \A p \in DOMAIN src :
                   src[p].dir =>
                       ([name |-> p, slash |-> TRUE, data |-> ""] \in ents
                            <=> (Len(p) = 1 \/ ChildrenOf(src, p) = {}))
            /\ \A e \in ents :
                   /\ e.name \in DOMAIN src
                   /\ e.slash <=> src[e.name].dir
                   /\ e.slash => e.data = ""

\* An archive of a tree in which Library/a holds nothing but the empty
\* directory Library/a/a.
C7_Witness ==
    \E t \in DOMAIN backups :
        LET src == backups[t].of
            ents == EntrySet(backups[t].entries)
        IN  /\ <<"Library", "a", "a">> \in DOMAIN src
            /\ src[<<"Library", "a", "a">>].dir
            /\ ChildrenOf(src, <<"Library", "a">>) = { <<"Library", "a", "a">> }
            /\ [name |-> <<"Library", "a", "a">>, slash |-> TRUE, data |-> ""] \in ents
            /\ [name |-> <<"Library", "a">>, slash |-> TRUE, data |-> ""] \notin ents

\* C10: with N backups listed, backup number k is restored only when the
\* operator enters an integer k with 1 <= k <= N; any other entry is an
\* invalid selection and selects no archive.
C10_Selection ==
    (last.op = "restore" /\ last.listed # <<>>) =>
        LET N == Len(last.listed)
            typed == Strip(last.choice)
        IN  IF IsInt(typed) /\ 1 <= IntOf(typed) /\ IntOf(typed) <= N
            THEN last.outcome # "invalid_selection" /\ last.selected = last.listed[IntOf(typed)]
            ELSE last.outcome = "invalid_selection" /\ last.selected = 0


(***************************************************************************)
(* Claims about the menu loop.                                             *)
(***************************************************************************)
StepFailed ==
    \/ log.firmware \in {"page_request_raised", "returned_false", "download_raised",
                         "copy_raised"}
    \/ log.labels \in {"download_raised", "copy_raised"}
    \/ log.restore = "extract_raised"

\* C6: no failure inside a menu action leaves main as an unhandled error that
\* ends the program, and a pass in which a step failed is never reported as
\* completed.
C6_ErrorPropagation ==
    /\ log.ended # "unhandled_exception"
    /\ StepFailed => "Update tasks completed!" \notin log.printed

\* C8 as stated, for the exits that are neither an escaped exception nor the
\* exit of select_sd_card: the loop ends only when the operator chooses quit,
\* with exit code 0.
C8_AsStated ==
    (pc = "exited" /\ log.ended \notin {"unhandled_exception", "select_sd_card_exit"}) =>
        (log.ended = "quit" /\ exit_code = 0)

TypedChoice == Strip(log.choice)
IsTask(c) == c \in { <<"1">>, <<"2">>, <<"3">>, <<"4">>, <<"5">> }
TaskRaised ==
    \/ log.firmware \in {"page_request_raised", "download_raised", "copy_raised"}
    \/ log.labels \in {"download_raised", "copy_raised"}
    \/ log.restore = "extract_raised"

\* C8 amended: after an invalid choice the menu is presented again; after a
\* completed action the operator is asked whether to do another operation and
\* the menu is presented again when the answer, trimmed and in lower case, is
\* y.  The loop ends only when the operator chooses quit (choice 0, exit code
\* 0), answers anything else than y to that question (exit code 0), when
\* select_sd_card exits with code 1, or when an exception raised inside an
\* action escapes main.
C8_MenuLoop ==
    /\ pc = "exited" =>
           \/ log.ended = "quit" /\ exit_code = 0 /\ TypedChoice = <<"0">>
           \/ /\ log.ended = "declined" /\ exit_code = 0
              /\ IsTask(TypedChoice) /\ ~TaskRaised
              /\ Lower(Strip(log.again)) # <<"y">>
           \/ log.ended = "select_sd_card_exit" /\ exit_code = 1 /\ IsTask(TypedChoice)
           \/ log.ended = "unhandled_exception" /\ exit_code = 1 /\ TaskRaised
    /\ pc = "again" => IsTask(TypedChoice) /\ ~TaskRaised /\ log.ended = "no"
    /\ pc = "menu" =>
           \/ log = NoPass
           \/ ~IsTask(TypedChoice) /\ TypedChoice # <<"0">>
              /\ log.printed = {"Invalid choice, try again."}
           \/ IsTask(TypedChoice) /\ ~TaskRaised /\ Lower(Strip(log.again)) = <<"y">>
    /\ (~IsTask(TypedChoice) /\ TypedChoice # <<"0">>) => pc = "menu"
    /\ Lower(Strip(log.again)) = <<"y">> => pc = "menu"

\* The loop ended on the answer n after a completed backup.
C8_Witness ==
    /\ pc = "exited" /\ log.ended = "declined" /\ exit_code = 0
    /\ log.again = <<"n">>
    /\ "Backup created successfully!" \in log.printed

\* The menu presented again after the answer "Y " to a completed restore.
C8_WitnessContinue ==
    /\ pc = "menu"
    /\ log.again = <<"Y"," ">>
    /\ log.restore = "completed"

=============================================================================
